---- MODULE Spec2Model ----
(***************************************************************************)
(* A model of the jsonsvc mock data server: the per-domain JSON documents  *)
(* (data/<domain>.json), the load/generate/save routines and the request   *)
(* handlers of routers/{users,products,orders,finance,hr,it}.py.           *)
(*                                                                         *)
(* No handler reads or writes another domain's document (each load_*_data  *)
(* opens only its own path), so a behaviour follows the document of ONE    *)
(* domain, chosen in Init (variable domain), and the requests addressed to *)
(* that domain's router, handled one at a time.                            *)
(*                                                                         *)
(* Representation.                                                         *)
(*  - A text that the code case-folds, searches or tests for truth is a    *)
(*    tuple of one-character strings: "HR" is <<"H","R">>, "" is <<>>.     *)
(*  - Optional[T] is a tuple of length 0 (None) or 1 (the value).          *)
(*  - A date text is a record [kind, y, m, d]; strptime decides whether it *)
(*    parses.  Amounts are integers in the smallest unit (1/100).          *)
(*  - created_at / requested_at are the clock in seconds: the fixed-width  *)
(*    "%Y-%m-%d %H:%M:%S" text orders exactly as the clock does.           *)
(***************************************************************************)
EXTENDS Integers, Sequences, FiniteSets, TLC

VARIABLES
    domain,   \* the router whose document the behaviour follows
    file,     \* that document on disk: absent, corrupt, or JSON data
    clock,    \* datetime.now(), in seconds
    resp,     \* the last request handled and its response
    included, \* the routers the served application includes
    inflight  \* per worker process: the POST it is in the middle of

vars == <<domain, file, clock, resp, included, inflight>>

---------------------------------------------------------------------------
(* Bounds of the model *)

\* longest collection of a document found on disk at start
MaxLen == 2
\* number of distinct outcomes of the unseeded random generators
NSeeds == 2
\* most support tickets plus password resets a document comes to hold
MaxStored == 2
\* number of records a random generator with a fixed count produces
GenLen == 2
\* number of worker processes that serve the same data directory
NWorkers == 2

---------------------------------------------------------------------------
(* Texts, Optional values, Python truthiness *)

None == <<>>
Some(x) == <<x>>
Opt(S) == {None} \cup {Some(x) : x \in S}

\* str.lower(), on the letters the vocabularies use
LowerChar(c) ==
    CASE c = "A" -> "a" [] c = "B" -> "b" [] c = "D" -> "d" [] c = "E" -> "e"
      [] c = "H" -> "h" [] c = "I" -> "i" [] c = "L" -> "l" [] c = "N" -> "n"
      [] c = "O" -> "o" [] c = "P" -> "p" [] c = "Q" -> "q" [] c = "R" -> "r"
      [] c = "T" -> "t" [] c = "X" -> "x"
      [] OTHER -> c

Lower(s) == [i \in 1..Len(s) |-> LowerChar(s[i])]

\* Python's `needle in hay` on str
Contains(needle, hay) ==
    \E k \in 0..(Len(hay) - Len(needle)) :
        \A i \in 1..Len(needle) : hay[k + i] = needle[i]

\* `if x:` for an Optional[str] query parameter: None and "" are falsy
TruthyStr(p) == p # None /\ p[1] # <<>>

\* `if x:` for an Optional[int] query parameter: None and 0 are falsy
TruthyInt(p) == p # None /\ p[1] # 0

RECURSIVE Sum(_)
\* sum(...) of a sequence of numbers
Sum(s) == IF s = <<>> THEN 0 ELSE Head(s) + Sum(Tail(s))

\* [x[field] for x in s]
Column(s, field) == [i \in 1..Len(s) |-> s[i][field]]

\* a / b as an exact fraction (b # 0), and the number 0
Quotient(a, b) == [num |-> a, den |-> b]
Zero == [num |-> 0, den |-> 1]
\* round(q, ndigits): the nearest fraction of denominator 10^ndigits, ties to even
Round(q, ndigits) ==
    LET scale == 10 ^ ndigits
        n == q.num * scale
        lo == n \div q.den
        twice == 2 * (n - lo * q.den)
    IN  [num |-> IF twice > q.den \/ (twice = q.den /\ lo % 2 = 1) THEN lo + 1 ELSE lo,
         den |-> scale]

\* the sequences over S of length 0..n
SeqUpTo(S, n) == UNION {[1..k -> S] : k \in 0..n}

\* the sequences of length 0..n whose i-th element is drawn from U[i]
RECURSIVE RowsUpTo(_, _)
RowsUpTo(U, n) ==
    IF n = 0 THEN {<<>>}
    ELSE LET shorter == RowsUpTo(U, n - 1)
         IN  shorter \cup {Append(s, r) : s \in {t \in shorter : Len(t) = n - 1}, r \in U[n]}

Digit(n) == CASE n = 0 -> "0" [] n = 1 -> "1" [] n = 2 -> "2" [] n = 3 -> "3"
              [] n = 4 -> "4" [] n = 5 -> "5" [] n = 6 -> "6" [] n = 7 -> "7"
              [] n = 8 -> "8" [] OTHER -> "9"

\* random.choice / random.randint under seed: the k-th draw, in 1..n
Draw(seed, k, n) == ((seed * 3 + k * (seed + 1)) % n) + 1

\* the outcomes of the generators a request can observe: they run only when the
\* document is absent
Seeds == IF file.state = "absent" THEN 1..NSeeds ELSE {1}

---------------------------------------------------------------------------
(* Dates: datetime.strptime(text, "%Y-%m-%d") *)

DateText(y, m, d) == [kind |-> "ymd", y |-> y, m |-> m, d |-> d]
EmptyText == [kind |-> "empty", y |-> 0, m |-> 0, d |-> 0]
NotADate == [kind |-> "junk", y |-> 0, m |-> 0, d |-> 0]

DaysInMonth(y, m) ==
    IF m = 2 THEN (IF y % 4 = 0 /\ (y % 100 # 0 \/ y % 400 = 0) THEN 29 ELSE 28)
    ELSE IF m \in {4, 6, 9, 11} THEN 30 ELSE 31

\* strptime raises ValueError unless the text is a calendar date
Parses(t) == t.kind = "ymd" /\ t.m \in 1..12 /\ t.d \in 1..DaysInMonth(t.y, t.m)

\* the datetime parsed, as a number that orders as datetimes do
strptime(t) == t.y * 10000 + t.m * 100 + t.d

\* `if date_from:`: only None and "" are falsy
TruthyDate(p) == p # None /\ p[1].kind # "empty"

---------------------------------------------------------------------------
(* Persisted documents and responses *)

Absent == [state |-> "absent", data |-> <<>>]
Corrupt == [state |-> "corrupt", data |-> <<>>]
\* a document json.loads accepts
Json(data) == [state |-> "json", data |-> data]

\* the default returned without being written
LoadWithoutPersist(default) ==
    IF file.state = "absent"
    THEN [raised |-> FALSE, data |-> default, file |-> file]
    ELSE IF file.state = "corrupt"
    THEN [raised |-> TRUE, data |-> <<>>, file |-> file]
    ELSE [raised |-> FALSE, data |-> file.data, file |-> file]

\* a malformed document replaced by the default, as an absent one is
LoadOrRegenerate(default) ==
    IF file.state \in {"absent", "corrupt"}
    THEN [raised |-> FALSE, data |-> default, file |-> Json(default)]
    ELSE [raised |-> FALSE, data |-> file.data, file |-> file]

\* load_*_data: `if not data_file.exists()` writes and returns the default;
\* otherwise json.loads(read_text()), which raises on a malformed document
LoadOrCreate(default) ==
    IF file.state = "absent"
    THEN [raised |-> FALSE, data |-> default, file |-> Json(default)]
    ELSE IF file.state = "corrupt"
    THEN [raised |-> TRUE, data |-> <<>>, file |-> file]
    ELSE [raised |-> FALSE, data |-> file.data, file |-> file]

NoRequest == [op |-> "none", args |-> <<>>, loaded |-> None, api_key |-> None,
              status |-> 0, exc |-> "", body |-> <<>>]

\* a handler's outcome: a JSON body, or an exception and the status it maps to
Ok(body) == [status |-> 200, exc |-> "", body |-> body]
HTTPException(status_code, detail) ==
    [status |-> status_code, exc |-> "HTTPException", body |-> [detail |-> detail]]
\* an exception no handler catches: the server answers 500
Unhandled(exc) ==
    [status |-> 500, exc |-> exc, body |-> [detail |-> "Internal Server Error"]]

\* the request as recorded: what load returned (when it returned) and the outcome
Reply(op, args, L, out) ==
    IF L.raised
    THEN [op |-> op, args |-> args, loaded |-> None] @@ Unhandled("JSONDecodeError")
    ELSE [op |-> op, args |-> args, loaded |-> Some(L.data)] @@ out

\* the dict assigned instead of accumulated: each group keeps its last value
GroupLast(s, key, val) ==
    [g \in {s[i][key] : i \in 1..Len(s)} |->
        LET last == CHOOSE i \in 1..Len(s) :
                        s[i][key] = g /\ \A j \in 1..Len(s) : s[j][key] = g => j <= i
        IN  s[last][val]]

\* dict.get(k, 0) + v accumulated over the records of s, keyed by field key
RECURSIVE GroupSum(_, _, _)
GroupSum(s, key, val) ==
    IF s = <<>> THEN <<>>
    ELSE LET n == Len(s)
             acc == GroupSum(SubSeq(s, 1, n - 1), key, val)
             k == s[n][key]
         IN  [g \in DOMAIN acc \cup {k} |->
                 (IF g \in DOMAIN acc THEN acc[g] ELSE 0) + (IF g = k THEN s[n][val] ELSE 0)]

---------------------------------------------------------------------------
(* routers/finance.py *)

HR == <<"H", "R">>
IT == <<"I", "T">>
FinDepartments == <<HR, IT>>
FiscalYears == <<2023, 2024>>
Categories == <<<<"A">>, <<"B">>>>
Periods == <<<<"Q", "1">>, <<"Q", "2">>>>
StoredDates == <<DateText(2023, 6, 1), DateText(2023, 7, 1), DateText(2024, 1, 1)>>

\* f"PROJ-{budget_id % 1000:03d}", f"REV-{revenue_id % 1000:03d}"
ProjId(n) == <<"P", Digit(n % 1000)>>
RevId(n) == <<"R", Digit(n % 1000)>>

generate_budget_data(seed) ==
    [i \in 1..(Len(FiscalYears) * Len(FinDepartments)) |->
        [id |-> i,
         department |-> FinDepartments[((i - 1) % Len(FinDepartments)) + 1],
         project_id |-> ProjId(i),
         fiscal_year |-> FiscalYears[((i - 1) \div Len(FinDepartments)) + 1],
         allocated_budget |-> 500 * Draw(seed, i, 3)]]

generate_expense_data(seed) ==
    [i \in 1..GenLen |->
        [id |-> i,
         department |-> FinDepartments[Draw(seed, i, Len(FinDepartments))],
         category |-> Categories[Draw(seed, i + 1, Len(Categories))],
         amount |-> 100 * Draw(seed, i + 2, 4),
         date |-> StoredDates[Draw(seed, i + 3, Len(StoredDates))]]]

generate_revenue_data(seed) ==
    [i \in 1..(Len(Periods) * Len(FinDepartments)) |->
        [id |-> i,
         department |-> FinDepartments[((i - 1) % Len(FinDepartments)) + 1],
         period |-> Periods[((i - 1) \div Len(FinDepartments)) + 1],
         revenue_amount |-> 50 * Draw(seed, i, 5),
         project_id |-> IF Draw(seed, i + 1, 3) > 1 THEN Some(RevId(i)) ELSE None]]

load_financial_data(seed) ==
    LoadOrCreate([budgets |-> generate_budget_data(seed),
                  expenses |-> generate_expense_data(seed),
                  revenues |-> generate_revenue_data(seed)])

\* b["department"].lower() == department.lower()
SameFolded(field, value) == Lower(field) = Lower(value)

\* filtered_budgets after the three `if <param>:` steps
filtered_budgets(budgets, a) ==
    LET f1 == IF TruthyStr(a.department)
              THEN SelectSeq(budgets, LAMBDA b : SameFolded(b.department, a.department[1]))
              ELSE budgets
        f2 == IF TruthyStr(a.project_id)
              THEN SelectSeq(f1, LAMBDA b : b.project_id = a.project_id[1])
              ELSE f1
    IN  IF TruthyInt(a.fiscal_year)
        THEN SelectSeq(f2, LAMBDA b : b.fiscal_year = a.fiscal_year[1])
        ELSE f2

budget_info(data, a) ==
    LET f == filtered_budgets(data.budgets, a)
    IN  IF f = <<>>
        THEN HTTPException(404, "No budget data found matching criteria")
        ELSE Ok([count |-> Len(f), results |-> f])

\* the lower bound taken exclusive
StrictlyAfter(e, bound) == strptime(e.date) > strptime(bound)

\* datetime.strptime(e["date"], "%Y-%m-%d") >= date_from_obj
NotBefore(e, bound) == strptime(e.date) >= strptime(bound)
\* datetime.strptime(e["date"], "%Y-%m-%d") <= date_to_obj
NotAfter(e, bound) == strptime(e.date) <= strptime(bound)

\* every record of s has the field: `e[key]` raises KeyError otherwise
Has(s, key) == \A i \in 1..Len(s) : key \in DOMAIN s[i]

\* one `try:` block of get_expense_reports: strptime of the bound, then, record
\* by record, e["date"] and its strptime inside the comprehension; the block
\* catches ValueError only, so the KeyError of a record without a date escapes
DateStep(f, bound, side) ==
    LET bad == {i \in 1..Len(f) : "date" \notin DOMAIN f[i] \/ ~Parses(f[i].date)}
        first == CHOOSE i \in bad : \A j \in bad : i <= j
    IN  IF ~Parses(bound)
        THEN [raised |-> TRUE, exc |-> "ValueError", list |-> <<>>]
        ELSE IF bad # {}
        THEN [raised |-> TRUE,
              exc |-> IF "date" \in DOMAIN f[first] THEN "ValueError" ELSE "KeyError",
              list |-> <<>>]
        ELSE [raised |-> FALSE, exc |-> "",
              list |-> SelectSeq(f, LAMBDA e : IF side = "date_from" THEN NotBefore(e, bound)
                                                                    ELSE NotAfter(e, bound))]

summary_of(f, total_key, total_field, key1, group1, key2, group2, list_key) ==
    (total_key :> Sum(Column(f, total_field)))
    @@ (key1 :> GroupSum(f, group1, total_field))
    @@ (key2 :> GroupSum(f, group2, total_field))
    @@ (list_key :> f)
    @@ [count |-> Len(f)]

expense_reports(data, a) ==
    LET f1 == IF TruthyStr(a.department)
              THEN SelectSeq(data.expenses, LAMBDA e : SameFolded(e.department, a.department[1]))
              ELSE data.expenses
        s2 == IF TruthyDate(a.date_from)
              THEN DateStep(f1, a.date_from[1], "date_from")
              ELSE [raised |-> FALSE, exc |-> "", list |-> f1]
        s3 == IF TruthyDate(a.date_to)
              THEN DateStep(s2.list, a.date_to[1], "date_to")
              ELSE [raised |-> FALSE, exc |-> "", list |-> s2.list]
    IN  IF TruthyStr(a.department) /\ ~Has(data.expenses, "department")
        THEN Unhandled("KeyError")
        ELSE IF s2.raised
        THEN IF s2.exc = "KeyError" THEN Unhandled("KeyError")
             ELSE HTTPException(400, "Invalid date_from format. Use YYYY-MM-DD")
        ELSE IF s3.raised
        THEN IF s3.exc = "KeyError" THEN Unhandled("KeyError")
             ELSE HTTPException(400, "Invalid date_to format. Use YYYY-MM-DD")
        ELSE IF ~(Has(s3.list, "amount") /\ Has(s3.list, "category")
                  /\ Has(s3.list, "department"))
        THEN Unhandled("KeyError")
        ELSE Ok(summary_of(s3.list, "total_amount", "amount",
                           "summary_by_category", "category",
                           "summary_by_department", "department", "expenses"))

\* the project_id comparison made whether or not the parameter was supplied
filtered_revenues_unguarded(revenues, a) ==
    LET f1 == IF TruthyStr(a.department)
              THEN SelectSeq(revenues, LAMBDA r : SameFolded(r.department, a.department[1]))
              ELSE revenues
        f2 == SelectSeq(f1, LAMBDA r : r.project_id = a.project_id)
    IN  IF TruthyStr(a.period)
        THEN SelectSeq(f2, LAMBDA r : SameFolded(r.period, a.period[1]))
        ELSE f2

filtered_revenues(revenues, a) ==
    LET f1 == IF TruthyStr(a.department)
              THEN SelectSeq(revenues, LAMBDA r : SameFolded(r.department, a.department[1]))
              ELSE revenues
        f2 == IF TruthyStr(a.project_id)
              THEN SelectSeq(f1, LAMBDA r : r.project_id = Some(a.project_id[1]))
              ELSE f1
    IN  IF TruthyStr(a.period)
        THEN SelectSeq(f2, LAMBDA r : SameFolded(r.period, a.period[1]))
        ELSE f2

revenue_data(data, a) ==
    LET f == filtered_revenues(data.revenues, a)
    IN  IF f = <<>>
        THEN HTTPException(404, "No revenue data found matching criteria")
        ELSE Ok(summary_of(f, "total_revenue", "revenue_amount",
                           "summary_by_period", "period",
                           "summary_by_department", "department", "revenues"))

\* budget_utilization: (total_expenses / total_budget * 100) if total_budget > 0 else 0
financial_summary(data) ==
    LET total_budget == Sum(Column(data.budgets, "allocated_budget"))
        total_expenses == Sum(Column(data.expenses, "amount"))
        total_revenue == Sum(Column(data.revenues, "revenue_amount"))
    IN  Ok([total_budget |-> total_budget,
            total_expenses |-> total_expenses,
            total_revenue |-> total_revenue,
            net_income |-> total_revenue - total_expenses,
            budget_utilization |->
                IF total_budget > 0 THEN Quotient(total_expenses * 100, total_budget)
                                    ELSE Zero])

---------------------------------------------------------------------------
(* routers/hr.py *)

HrDepartments == <<HR, IT>>
FirstNames == <<<<"A", "l">>, <<"B", "o">>>>
LastNames == <<<<"L", "i">>>>
Statuses == <<<<"O", "n">>, <<"O", "f", "f">>>>
Locations == <<<<"X">>>>
PolicyTypes == <<<<"L">>, <<"T">>>>
PayPeriods == <<<<"0", "1">>, <<"0", "2">>>>
FirstEmployeeId == 1000

\* f"EMP{employee_id}", on the last digit
EmpId(n) == <<"E", Digit(n % 10)>>
\* f"POL-{policy_type[:3].upper()}-{i+1:03d}"
PolId(policy_type, n) == policy_type \o <<Digit(n)>>

\* f"{first_name} {last_name}"
FullName(first_name, last_name) == first_name \o <<" ">> \o last_name

generate_employee_data(seed) ==
    [i \in 1..GenLen |->
        LET first_name == FirstNames[Draw(seed, i, Len(FirstNames))]
            last_name == LastNames[Draw(seed, i + 1, Len(LastNames))]
        IN  [employee_id |-> EmpId(FirstEmployeeId + i - 1),
             first_name |-> first_name,
             last_name |-> last_name,
             full_name |-> FullName(first_name, last_name),
             department |-> HrDepartments[Draw(seed, i + 2, Len(HrDepartments))],
             location |-> Locations[Draw(seed, i + 3, Len(Locations))],
             status |-> Statuses[Draw(seed, i + 4, Len(Statuses))]]]

generate_policy_data(seed) ==
    [i \in 1..Len(PolicyTypes) |->
        [policy_id |-> PolId(PolicyTypes[i], 1),
         policy_type |-> PolicyTypes[i],
         category |-> PolicyTypes[i]]]

\* one period per employee, drawn at random; employees are generated afresh
generate_payroll_data(seed) ==
    LET employees == generate_employee_data(seed)
    IN  [i \in 1..GenLen |->
            LET base_salary == 1000 * Draw(seed, i, 3)
                bonus == IF Draw(seed, i + 1, 3) > 2 THEN 100 ELSE 0
                deductions == 50 * Draw(seed, i + 2, 2)
            IN  [id |-> i,
                 employee_id |-> employees[i].employee_id,
                 department |-> employees[i].department,
                 period |-> PayPeriods[Draw(seed, i + 3, Len(PayPeriods))],
                 base_salary |-> base_salary,
                 bonus |-> bonus,
                 net_pay |-> base_salary + bonus - deductions]]

load_hr_data(seed) ==
    LoadOrCreate([employees |-> generate_employee_data(seed),
                  policies |-> generate_policy_data(seed),
                  payroll |-> generate_payroll_data(seed)])

\* name_lower in full_name.lower() or ... first_name ... or ... last_name
NameMatches(e, name) ==
    LET name_lower == Lower(name)
    IN  \/ Contains(name_lower, Lower(e.full_name))
        \/ Contains(name_lower, Lower(e.first_name))
        \/ Contains(name_lower, Lower(e.last_name))

\* the filter chain with its last step run on the whole list instead of on the
\* result of the steps before it
filtered_employees_restarted(employees, a) ==
    LET f1 == IF TruthyStr(a.employee_id)
              THEN SelectSeq(employees, LAMBDA e : e.employee_id = a.employee_id[1])
              ELSE employees
        f2 == IF TruthyStr(a.name)
              THEN SelectSeq(f1, LAMBDA e : NameMatches(e, a.name[1]))
              ELSE f1
        f3 == IF TruthyStr(a.department)
              THEN SelectSeq(f2, LAMBDA e : SameFolded(e.department, a.department[1]))
              ELSE f2
    IN  IF TruthyStr(a.status)
        THEN SelectSeq(employees, LAMBDA e : SameFolded(e.status, a.status[1]))
        ELSE f3

filtered_employees(employees, a) ==
    LET f1 == IF TruthyStr(a.employee_id)
              THEN SelectSeq(employees, LAMBDA e : e.employee_id = a.employee_id[1])
              ELSE employees
        f2 == IF TruthyStr(a.name)
              THEN SelectSeq(f1, LAMBDA e : NameMatches(e, a.name[1]))
              ELSE f1
        f3 == IF TruthyStr(a.department)
              THEN SelectSeq(f2, LAMBDA e : SameFolded(e.department, a.department[1]))
              ELSE f2
    IN  IF TruthyStr(a.status)
        THEN SelectSeq(f3, LAMBDA e : SameFolded(e.status, a.status[1]))
        ELSE f3

employees_list(data, a) ==
    LET f == filtered_employees(data.employees, a)
    IN  IF f = <<>>
        THEN HTTPException(404, "No employees found matching criteria")
        ELSE Ok([count |-> Len(f), employees |-> f])

\* the first employee with that id, or 404
employee_by_id(data, a) ==
    LET hits == SelectSeq(data.employees, LAMBDA e : e.employee_id = a.employee_id)
    IN  IF hits = <<>>
        THEN HTTPException(404, "Employee not found")
        ELSE Ok(Head(hits))

filtered_policies(policies, a) ==
    LET f1 == IF TruthyStr(a.policy_type)
              THEN SelectSeq(policies, LAMBDA p : SameFolded(p.policy_type, a.policy_type[1]))
              ELSE policies
    IN  IF TruthyStr(a.category)
        THEN SelectSeq(f1, LAMBDA p : SameFolded(p.category, a.category[1]))
        ELSE f1

\* policies_by_type[t] is the list of the filtered policies of type t
PoliciesByType(f) ==
    [t \in {f[i].policy_type : i \in 1..Len(f)} |->
        SelectSeq(f, LAMBDA p : p.policy_type = t)]

\* the handler without its 404 branch
hr_policies_empty_ok(data, a) ==
    LET f == filtered_policies(data.policies, a)
    IN  Ok([count |-> Len(f),
            policies_by_type |-> PoliciesByType(f),
            all_policies |-> f])

hr_policies(data, a) ==
    LET f == filtered_policies(data.policies, a)
    IN  IF f = <<>>
        THEN HTTPException(404, "No policies found matching criteria")
        ELSE Ok([count |-> Len(f),
                 policies_by_type |-> PoliciesByType(f),
                 all_policies |-> f])

filtered_payroll(payroll, a) ==
    LET f1 == IF TruthyStr(a.employee_id)
              THEN SelectSeq(payroll, LAMBDA p : p.employee_id = a.employee_id[1])
              ELSE payroll
        f2 == IF TruthyStr(a.period)
              THEN SelectSeq(f1, LAMBDA p : p.period = a.period[1])
              ELSE f1
    IN  IF TruthyStr(a.department)
        THEN SelectSeq(f2, LAMBDA p : SameFolded(p.department, a.department[1]))
        ELSE f2

payroll_data(data, a) ==
    LET f == filtered_payroll(data.payroll, a)
    IN  IF f = <<>>
        THEN HTTPException(404, "No payroll data found matching criteria")
        ELSE Ok(summary_of(f, "total_net_pay", "net_pay",
                           "summary_by_department", "department",
                           "summary_by_period", "period", "payroll_entries")
                @@ [total_base_salary |-> Sum(Column(f, "base_salary")),
                    total_bonus |-> Sum(Column(f, "bonus"))])

\* dict.get(k, 0) + 1 accumulated over the records of s
GroupCount(s, key) ==
    [g \in {s[i][key] : i \in 1..Len(s)} |->
        Cardinality({i \in 1..Len(s) : s[i][key] = g})]

\* avg_salary = total_payroll / len(payroll) if payroll else 0
hr_summary(data) ==
    LET employees == data.employees
        payroll == data.payroll
        total_payroll == Sum(Column(payroll, "net_pay"))
        avg_salary == IF payroll # <<>> THEN Quotient(total_payroll, Len(payroll)) ELSE Zero
    IN  Ok([total_employees |-> Len(employees),
            departments_summary |-> GroupCount(employees, "department"),
            employment_status |-> GroupCount(employees, "status"),
            locations_summary |-> GroupCount(employees, "location"),
            total_payroll_processed |-> total_payroll,
            average_salary |-> Round(avg_salary, 2),
            total_payroll_records |-> Len(payroll)])

---------------------------------------------------------------------------
(* routers/it.py *)

Services == <<<<"D", "B">>, <<"A", "P", "I">>>>
StatusOptions == <<"operational", "degraded", "outage", "maintenance">>
Priorities == {<<"l", "o">>, <<"m", "e">>, <<"h", "i">>, <<"c", "r">>}
Medium == <<"m", "e">>
General == <<"g", "e">>
Open == <<"o", "p", "e", "n">>
Pending == <<"p", "e", "n", "d">>
SevenDays == 604800
OneHour == 3600

generate_system_status_data(seed) ==
    [i \in 1..Len(Services) |->
        LET status == StatusOptions[Draw(seed, i, Len(StatusOptions))]
        IN  [service_name |-> Services[i],
             status |-> status,
             response_time |-> IF status = "operational" THEN 5000 * Draw(seed, i + 1, 3)
                                                         ELSE 80000 + Draw(seed, i + 1, 3),
             uptime |-> 9950 + Draw(seed, i + 2, 4)]]

load_it_data(seed) ==
    LoadOrCreate([system_status |-> generate_system_status_data(seed),
                  support_tickets |-> <<>>,
                  password_resets |-> <<>>])

\* a save that keeps what the document gained since it was loaded
save_it_data_merged(data) ==
    IF file.state # "json" THEN Json(data)
    ELSE LET Missing(stored, mine) ==
                 SelectSeq(stored, LAMBDA r : \A i \in 1..Len(mine) : mine[i] # r)
         IN  Json([data EXCEPT
                     !.support_tickets = Missing(file.data.support_tickets, @) \o @,
                     !.password_resets = Missing(file.data.password_resets, @) \o @])

\* data_file.write_text(json.dumps(data)): the whole document is rewritten
save_it_data(data) == Json(data)

\* f"TICKET-{random.randint(10000, 99999)}"
generate_support_ticket_id(seed) == <<"T", Digit(seed)>>
\* f"RESET-{random.randint(...)}-{random.randint(...)}"
generate_password_reset_token(seed) == <<"S", Digit(seed)>>
\* f"REQ-{random.randint(10000, 99999)}"
RequestId(seed) == <<"Q", Digit(seed)>>

\* EmailStr: the text has a local part, an "@" and a domain
IsEmail(s) == \E i \in 2..(Len(s) - 1) : s[i] = "@" /\ \A j \in 1..Len(s) : j # i => s[j] # "@"

\* the model without the priority validator: the priority is kept as sent
SupportTicketRequestAsSent(body) ==
    LET valid == /\ body.title # None
                 /\ body.description # None
                 /\ body.contact_email # None => IsEmail(body.contact_email[1])
    IN  IF ~valid THEN [valid |-> FALSE]
        ELSE [valid |-> TRUE,
              title |-> body.title[1],
              description |-> body.description[1],
              priority |-> IF body.priority = None THEN Medium ELSE body.priority[1],
              category |-> IF body.category = None THEN Some(General) ELSE body.category,
              contact_email |-> body.contact_email]

\* SupportTicketRequest: title and description required; validate_priority
\* lower-cases a given priority and rejects one outside the four; defaults
\* are not validated
SupportTicketRequest(body) ==
    LET valid == /\ body.title # None
                 /\ body.description # None
                 /\ body.priority # None => Lower(body.priority[1]) \in Priorities
                 /\ body.contact_email # None => IsEmail(body.contact_email[1])
    IN  IF ~valid THEN [valid |-> FALSE]
        ELSE [valid |-> TRUE,
              title |-> body.title[1],
              description |-> body.description[1],
              priority |-> IF body.priority = None THEN Medium ELSE Lower(body.priority[1]),
              category |-> IF body.category = None THEN Some(General) ELSE body.category,
              contact_email |-> body.contact_email]

\* PasswordResetRequest: validate_at_least_one
PasswordResetRequest(body) ==
    LET valid == /\ body.email # None => IsEmail(body.email[1])
                 /\ ~(body.username = None /\ body.email = None)
    IN  IF ~valid THEN [valid |-> FALSE]
        ELSE [valid |-> TRUE, username |-> body.username, email |-> body.email]

\* a request body the framework rejects before the handler runs
ValidationError(op, body) ==
    [op |-> op, args |-> body, loaded |-> None, status |-> 422,
     exc |-> "RequestValidationError", body |-> [detail |-> "validation error"]]

---------------------------------------------------------------------------
(* API keys: routers/finance.py, routers/hr.py, routers/it.py *)

VALID_API_KEYS == {"fin_12345abcde", "fin_admin_67890xyz"}
VALID_HR_API_KEYS == {"hr_12345abcde", "hr_admin_67890xyz", "payroll_24680mnop"}
VALID_IT_API_KEYS == {"it_12345abcde", "it_admin_67890xyz", "it_support_24680mnop"}

\* the header is declared Header(...): without it the framework answers 422
\* and calls neither the dependency nor the handler
MissingHeader ==
    [status |-> 422, exc |-> "RequestValidationError",
     body |-> [detail |-> "validation error"]]

Passed == [raised |-> FALSE, out |-> <<>>]

\* the key check of a router: api_key is the header, None when it is not sent
CheckKey(api_key, valid, detail) ==
    IF api_key = None THEN [raised |-> TRUE, out |-> MissingHeader]
    ELSE IF api_key[1] \notin valid
    THEN [raised |-> TRUE, out |-> HTTPException(401, detail)]
    ELSE Passed

verify_api_key(api_key) == CheckKey(api_key, VALID_API_KEYS, "Invalid API key")
verify_hr_api_key(api_key) == CheckKey(api_key, VALID_HR_API_KEYS, "Invalid HR API key")
verify_it_api_key(api_key) == CheckKey(api_key, VALID_IT_API_KEYS, "Invalid IT API key")

\* dependencies=[Depends(verify_...)] of the routes of router d; the routes
\* of users, products and orders declare none
Depends(d, api_key) ==
    CASE d = "finance" -> verify_api_key(api_key)
      [] d = "hr" -> verify_hr_api_key(api_key)
      [] d = "it" -> verify_it_api_key(api_key)
      [] OTHER -> Passed

\* the same sort without reverse=True: stable, smallest key first
RECURSIVE SortOldestFirst(_, _)
SortOldestFirst(s, key) ==
    IF s = <<>> THEN <<>>
    ELSE LET n == Len(s)
             x == s[n]
             t == SortOldestFirst(SubSeq(s, 1, n - 1), key)
             k == Cardinality({i \in 1..Len(t) : t[i][key] <= x[key]})
         IN  SubSeq(t, 1, k) \o <<x>> \o SubSeq(t, k + 1, Len(t))

\* list.sort(key=lambda x: x[key], reverse=True): stable, largest key first
RECURSIVE SortNewestFirst(_, _)
SortNewestFirst(s, key) ==
    IF s = <<>> THEN <<>>
    ELSE LET n == Len(s)
             x == s[n]
             t == SortNewestFirst(SubSeq(s, 1, n - 1), key)
             k == Cardinality({i \in 1..Len(t) : t[i][key] >= x[key]})
         IN  SubSeq(t, 1, k) \o <<x>> \o SubSeq(t, k + 1, Len(t))

system_status_of(data, a) ==
    LET all == data.system_status
        filtered_status == SelectSeq(all, LAMBDA s :
                               Contains(Lower(a.service_name[1]), Lower(s.service_name)))
        system_status == IF TruthyStr(a.service_name) THEN filtered_status ELSE all
        operational_services ==
            Cardinality({i \in 1..Len(system_status) : system_status[i].status = "operational"})
        total_services == Len(system_status)
    IN  IF TruthyStr(a.service_name) /\ filtered_status = <<>>
        THEN HTTPException(404, "No service found with name containing")
        ELSE Ok([overall_status |->
                     IF operational_services = total_services THEN "operational"
                     ELSE IF 10 * operational_services > 7 * total_services THEN "degraded"
                     ELSE "outage",
                 operational_services |-> operational_services,
                 total_services |-> total_services,
                 services |-> system_status])

\* sum(...) / len(system_status): ZeroDivisionError on an empty list
system_overview(data) ==
    LET system_status == data.system_status
    IN  IF Len(system_status) = 0 THEN Unhandled("ZeroDivisionError")
        ELSE Ok([status_summary |-> GroupCount(system_status, "status"),
                 average_response_time |->
                     Round(Quotient(Sum(Column(system_status, "response_time")),
                                    100 * Len(system_status)), 2),
                 average_uptime |->
                     Round(Quotient(Sum(Column(system_status, "uptime")),
                                    100 * Len(system_status)), 2),
                 total_services |-> Len(system_status)])

new_ticket(ticket_request, seed, now) ==
    [ticket_id |-> generate_support_ticket_id(seed),
     title |-> ticket_request.title,
     description |-> ticket_request.description,
     priority |-> ticket_request.priority,
     category |-> ticket_request.category,
     status |-> Open,
     created_at |-> now,
     updated_at |-> now,
     contact_email |-> ticket_request.contact_email,
     assigned_to |-> None,
     resolution |-> None]

\* the ticket inserted at the head of the list
with_ticket_first(data, ticket) ==
    [data EXCEPT !.support_tickets = <<ticket>> \o @]

\* data["support_tickets"].append(new_ticket)
with_ticket(data, ticket) ==
    [data EXCEPT !.support_tickets = Append(@, ticket)]

support_tickets_of(data, a) ==
    LET t1 == IF TruthyStr(a.status)
              THEN SelectSeq(data.support_tickets, LAMBDA t : t.status = Lower(a.status[1]))
              ELSE data.support_tickets
        t2 == IF TruthyStr(a.priority)
              THEN SelectSeq(t1, LAMBDA t : t.priority = Lower(a.priority[1]))
              ELSE t1
        tickets == SortNewestFirst(t2, "created_at")
    IN  Ok([count |-> Len(tickets), tickets |-> tickets])

reset_record(reset_request, seed, now) ==
    [request_id |-> RequestId(seed),
     username |-> reset_request.username,
     email |-> reset_request.email,
     reset_token |-> generate_password_reset_token(seed),
     requested_at |-> now,
     expires_at |-> now + OneHour,
     status |-> Pending]

\* data["password_resets"].append(reset_record)
with_reset(data, record) ==
    [data EXCEPT !.password_resets = Append(@, record)]

\* reset_request.email or f"{reset_request.username}@company.com"
email_address(reset_request) ==
    IF reset_request.email # None /\ reset_request.email[1] # <<>>
    THEN reset_request.email[1]
    ELSE (IF reset_request.username = None THEN <<"N", "o", "n", "e">>
                                           ELSE reset_request.username[1]) \o <<"@", "c">>

password_resets_of(data, a) ==
    LET r1 == IF TruthyStr(a.username)
              THEN SelectSeq(data.password_resets, LAMBDA r : r.username = Some(a.username[1]))
              ELSE data.password_resets
        r2 == IF TruthyStr(a.status)
              THEN SelectSeq(r1, LAMBDA r : r.status = Lower(a.status[1]))
              ELSE r1
        resets == SortNewestFirst(r2, "requested_at")
    IN  Ok([count |-> Len(resets), password_resets |-> resets])

\* status_counts.get("operational", 0) / len(system_status) * 100
it_dashboard(data, now) ==
    LET system_status == data.system_status
        status_counts == GroupCount(system_status, "status")
        tickets == data.support_tickets
        ticket_status_counts == GroupCount(tickets, "status")
        resets == data.password_resets
        recent_resets == SelectSeq(resets, LAMBDA r : r.requested_at > now - SevenDays)
        operational == IF "operational" \in DOMAIN status_counts
                       THEN status_counts["operational"] ELSE 0
    IN  IF Len(system_status) = 0 THEN Unhandled("ZeroDivisionError")
        ELSE Ok([system_health |->
                     [total_services |-> Len(system_status),
                      status_breakdown |-> status_counts,
                      operational_rate |->
                          Round(Quotient(operational * 100, Len(system_status)), 1)],
                 support_tickets |->
                     [total_tickets |-> Len(tickets),
                      open_tickets |-> IF Open \in DOMAIN ticket_status_counts
                                       THEN ticket_status_counts[Open] ELSE 0,
                      status_breakdown |-> ticket_status_counts,
                      priority_breakdown |-> GroupCount(tickets, "priority")],
                 password_resets |->
                     [total_requests |-> Len(resets),
                      recent_requests |-> Len(recent_resets),
                      pending_requests |->
                          Cardinality({i \in 1..Len(resets) : resets[i].status = Pending})]])

---------------------------------------------------------------------------
(* routers/users.py, routers/products.py, routers/orders.py *)

Electronics == <<"e", "l">>
Education == <<"e", "d">>
Home == <<"h", "o">>

default_users ==
    <<[id |-> 1, role |-> "user"], [id |-> 2, role |-> "admin"], [id |-> 3, role |-> "user"],
      [id |-> 4, role |-> "moderator"], [id |-> 5, role |-> "user"]>>

default_products ==
    <<[id |-> 1, category |-> Electronics], [id |-> 2, category |-> Electronics],
      [id |-> 3, category |-> Electronics], [id |-> 4, category |-> Education],
      [id |-> 5, category |-> Home]>>

default_orders ==
    <<[id |-> 1, user_id |-> 1], [id |-> 2, user_id |-> 2], [id |-> 3, user_id |-> 1],
      [id |-> 4, user_id |-> 3], [id |-> 5, user_id |-> 4]>>

load_user_data == LoadOrCreate(default_users)
load_product_data == LoadOrCreate(default_products)
load_order_data == LoadOrCreate(default_orders)

\* `if not <list>: raise 404`, else random.choice(<list>): pick is the draw
random_of(list, pick, detail) ==
    IF list = <<>> THEN HTTPException(404, detail)
    ELSE Ok(list[((pick - 1) % Len(list)) + 1])

\* the first user whose id is user_id, or 404
user_by_id(users, a) ==
    LET hits == SelectSeq(users, LAMBDA user : user.id = a.user_id)
    IN  IF hits = <<>> THEN HTTPException(404, "User not found") ELSE Ok(Head(hits))

products_by_category(products, a) ==
    LET filtered == SelectSeq(products, LAMBDA q : SameFolded(q.category, a.category))
    IN  IF filtered = <<>> THEN HTTPException(404, "No products found in category")
        ELSE Ok(filtered)

orders_by_user(orders, a) ==
    LET filtered == SelectSeq(orders, LAMBDA o : o.user_id = a.user_id)
    IN  IF filtered = <<>> THEN HTTPException(404, "No orders found for user")
        ELSE Ok(filtered)

---------------------------------------------------------------------------
(* Documents found on disk when the server starts, and request inputs *)

Range(s) == {s[i] : i \in 1..Len(s)}

BudgetRows ==
    RowsUpTo([i \in 1..MaxLen |->
        {[id |-> i, department |-> d, project_id |-> ProjId(i), fiscal_year |-> y,
          allocated_budget |-> 500 * i] :
            d \in Range(FinDepartments), y \in Range(FiscalYears)}], MaxLen)

\* the departments take turns along the list
ExpenseRows ==
    RowsUpTo([i \in 1..MaxLen |->
        {[id |-> i, department |-> FinDepartments[((i - 1) % Len(FinDepartments)) + 1],
          category |-> c, amount |-> 100 * i + 25, date |-> t] :
            c \in Range(Categories), t \in Range(StoredDates)}],
        MaxLen)

RevenueRows ==
    RowsUpTo([i \in 1..MaxLen |->
        {[id |-> i, department |-> d, period |-> q, revenue_amount |-> 50 * i + 5,
          project_id |-> j] :
            d \in Range(FinDepartments), q \in Range(Periods), j \in {None, Some(RevId(i))}}],
        MaxLen)

EmployeeRows ==
    RowsUpTo([i \in 1..MaxLen |->
        {[employee_id |-> EmpId(FirstEmployeeId + i - 1), first_name |-> f,
          last_name |-> LastNames[1], full_name |-> FullName(f, LastNames[1]),
          department |-> d, location |-> Locations[1], status |-> st] :
            f \in Range(FirstNames), d \in Range(HrDepartments), st \in Range(Statuses)}],
        MaxLen)

PolicyRows ==
    RowsUpTo([i \in 1..MaxLen |->
        {[policy_id |-> PolId(t, i), policy_type |-> t, category |-> c] :
            t \in Range(PolicyTypes), c \in Range(PolicyTypes)}], MaxLen)

PayrollRows ==
    RowsUpTo([i \in 1..MaxLen |->
        {[id |-> i, employee_id |-> e, department |-> d, period |-> q,
          base_salary |-> 1000 * i, bonus |-> 100 * (i % 2),
          net_pay |-> 1000 * i + 100 * (i % 2) - 50] :
            e \in {EmpId(0), EmpId(1)}, d \in Range(HrDepartments), q \in Range(PayPeriods)}],
        MaxLen)

StatusRows ==
    RowsUpTo([i \in 1..MaxLen |->
        {[service_name |-> n, status |-> st, response_time |-> 5000 * i + 1,
          uptime |-> 9990] :
            n \in Range(Services), st \in {"operational", "degraded"}}], MaxLen)

Closed == <<"c", "l">>

TicketRows ==
    RowsUpTo([i \in 1..MaxLen |->
        {[new_ticket([title |-> <<"t">>, description |-> <<"d">>, priority |-> q,
                      category |-> Some(General), contact_email |-> None], i, t)
            EXCEPT !.status = st] :
            q \in {Medium, <<"h", "i">>}, st \in {Open, Closed}, t \in 0..1}], MaxLen)

ResetRows ==
    RowsUpTo([i \in 1..MaxLen |->
        {[reset_record([username |-> u, email |-> None], i, t) EXCEPT !.status = st] :
            u \in {Some(<<"b", "o">>), Some(<<"a", "l">>)}, st \in {Pending, Closed},
            t \in 0..1}], MaxLen)

UserRows == RowsUpTo([i \in 1..MaxLen |-> {[id |-> k, role |-> "user"] : k \in 1..2}], MaxLen)
ProductRows ==
    RowsUpTo([i \in 1..MaxLen |-> {[id |-> i, category |-> c] : c \in {Electronics, Home}}],
             MaxLen)
OrderRows == RowsUpTo([i \in 1..MaxLen |-> {[id |-> i, user_id |-> u] : u \in 1..2}], MaxLen)

Domains == {"users", "products", "orders", "finance", "hr", "it"}

\* the well-formed documents of domain d: one collection varies, the others are empty
Documents(d) ==
    CASE d = "users" -> UserRows
      [] d = "products" -> ProductRows
      [] d = "orders" -> OrderRows
      [] d = "finance" ->
            {[budgets |-> r, expenses |-> <<>>, revenues |-> <<>>] : r \in BudgetRows}
            \cup {[budgets |-> <<>>, expenses |-> r, revenues |-> <<>>] : r \in ExpenseRows}
            \cup {[budgets |-> <<>>, expenses |-> <<>>, revenues |-> r] : r \in RevenueRows}
      [] d = "hr" ->
            {[employees |-> r, policies |-> <<>>, payroll |-> <<>>] : r \in EmployeeRows}
            \cup {[employees |-> <<>>, policies |-> r, payroll |-> <<>>] : r \in PolicyRows}
            \cup {[employees |-> <<>>, policies |-> <<>>, payroll |-> r] : r \in PayrollRows}
      [] d = "it" ->
            {[system_status |-> r, support_tickets |-> <<>>, password_resets |-> <<>>] :
                r \in StatusRows}
            \cup {[system_status |-> generate_system_status_data(1), support_tickets |-> r,
                   password_resets |-> <<>>] : r \in TicketRows}
            \cup {[system_status |-> generate_system_status_data(1), support_tickets |-> <<>>,
                   password_resets |-> r] : r \in ResetRows}

DepartmentArgs == Opt({<<>>, <<"h", "r">>})
ProjectIdArgs == Opt({Lower(ProjId(1)), ProjId(1)})
RevenueProjectIdArgs == Opt({<<>>, RevId(1)})
FiscalYearArgs == Opt({0, 2023})
PeriodArgs == Opt({<<>>, <<"q", "1">>})
DateFromArgs == Opt({EmptyText, NotADate, DateText(2023, 6, 15), DateText(2023, 7, 1)})
DateToArgs == Opt({DateText(2023, 2, 30), DateText(2023, 7, 1), DateText(2023, 12, 31)})
EmployeeIdArgs == Opt({<<>>, EmpId(0)})
NameArgs == Opt({<<"A", "L">>, <<"i">>})
StatusArgs == Opt({<<"O", "N">>})
PolicyTypeArgs == Opt({<<>>, <<"l">>})
PayPeriodArgs == Opt({<<>>, <<"0", "1">>})
ServiceNameArgs == Opt({<<"d", "b">>, <<"x">>})
TicketStatusArgs == Opt({<<"O", "P", "E", "N">>})
PriorityArgs == Opt({<<>>, <<"H", "I">>})
UsernameArgs == Opt({<<"b", "o">>})
ResetStatusArgs == Opt({<<>>, <<"P", "E", "N", "D">>})

\* the key header of a request to router d: not sent, a text that is no key,
\* or a key of one of the three key tables
Headers(d) ==
    IF d \in {"finance", "hr", "it"}
    THEN Opt({"wrong", "fin_12345abcde", "hr_12345abcde", "it_12345abcde"})
    ELSE {None}

\* the numbers random.randint returns for a ticket or request id
RandomIds == {1, 2}

TicketBodies ==
    [title : Opt({<<"t">>}), description : Opt({<<"d">>}),
     priority : Opt({<<"H", "I">>, <<"x">>}), category : {None}, contact_email : {None}]

ResetBodies ==
    [username : Opt({<<"b", "o">>}), email : Opt({<<"b", "@", "c">>, <<"b">>})]

---------------------------------------------------------------------------
(* The server *)

\* main.py includes five routers; routers/it.py defines a sixth that main.py
\* does not include
MainRouters == {"users", "products", "orders", "finance", "hr"}

\* the application that is served: main.py's app, or, for the behaviours that
\* follow the IT document, also an application that includes routers/it.py
Applications(d) ==
    IF d = "it" THEN {MainRouters, MainRouters \cup {"it"}} ELSE {MainRouters}

\* the worker processes, none of them in the middle of a POST
Workers == 1..NWorkers
NotInFlight == [pc |-> "idle", op |-> "none", status |-> 0, data |-> <<>>, record |-> <<>>]
NoneInFlight == [w \in Workers |-> NotInFlight]

\* the server starts on a data directory without the document or with a
\* malformed one
Init ==
    /\ domain \in Domains
    /\ file \in {Absent, Corrupt}
    /\ clock = 1
    /\ resp = NoRequest
    /\ included \in Applications(domain)
    /\ inflight = NoneInFlight

\* the server starts on a data directory that may hold a well-formed document
InitDocuments ==
    /\ domain \in Domains
    /\ file \in {Absent, Corrupt} \cup {Json(d) : d \in Documents(domain)}
    /\ clock = 1
    /\ resp = NoRequest
    /\ included \in Applications(domain)
    /\ inflight = NoneInFlight

\* no request is being handled: requests are handled one at a time
Idle == resp.op = "none"

\* the response is sent and the server waits for the next request
Deliver ==
    /\ ~Idle
    /\ resp' = NoRequest
    /\ UNCHANGED <<domain, file, clock, included, inflight>>

\* the key headers the dependency of router d lets through
Accepted(d) == {api_key \in Headers(d) : ~Depends(d, api_key).raised}

\* a request to router d is handled: load's effect on the document, the response
Serve(d, op, args, L, out) ==
    /\ Idle
    /\ domain = d
    /\ d \in included
    /\ file' = L.file
    /\ \E api_key \in Accepted(d) :
           resp' = Reply(op, args, L, out) @@ [api_key |-> api_key]
    /\ UNCHANGED <<domain, clock, included, inflight>>

\* a request to a route of the followed router stopped by its key dependency
\* (every route of finance, hr and it declares it): the handler is not called
Refuse ==
    /\ Idle
    /\ domain \in included
    /\ \E api_key \in Headers(domain) :
           /\ Depends(domain, api_key).raised
           /\ resp' = [op |-> "refused", args |-> <<>>, loaded |-> None,
                       api_key |-> api_key]
                      @@ Depends(domain, api_key).out
    /\ UNCHANGED <<domain, file, clock, included, inflight>>

\* a request to a path of a router the application does not include: no route
\* matches and the framework answers 404
not_found ==
    /\ Idle
    /\ domain \notin included
    /\ \E api_key \in Headers(domain) :
           resp' = [op |-> "not_found", args |-> <<>>, loaded |-> None,
                    api_key |-> api_key]
                   @@ HTTPException(404, "Not Found")
    /\ UNCHANGED <<domain, file, clock, included, inflight>>

get_random_user ==
    \E pick \in 1..Len(default_users) :
        LET L == load_user_data
        IN  Serve("users", "get_random_user", <<>>, L,
                  random_of(L.data, pick, "No user data available"))

get_all_users ==
    LET L == load_user_data
    IN  Serve("users", "get_all_users", <<>>, L, Ok(L.data))

get_user_by_id ==
    \E user_id \in 1..3 :
        LET L == load_user_data
            a == [user_id |-> user_id]
        IN  Serve("users", "get_user_by_id", a, L, user_by_id(L.data, a))

get_random_product ==
    \E pick \in 1..Len(default_products) :
        LET L == load_product_data
        IN  Serve("products", "get_random_product", <<>>, L,
                  random_of(L.data, pick, "No product data available"))

get_all_products ==
    LET L == load_product_data
    IN  Serve("products", "get_all_products", <<>>, L, Ok(L.data))

get_products_by_category ==
    \E category \in {Electronics, <<"H", "O">>, <<"x">>} :
        LET L == load_product_data
            a == [category |-> category]
        IN  Serve("products", "get_products_by_category", a, L, products_by_category(L.data, a))

get_random_order ==
    \E pick \in 1..Len(default_orders) :
        LET L == load_order_data
        IN  Serve("orders", "get_random_order", <<>>, L,
                  random_of(L.data, pick, "No order data available"))

get_all_orders ==
    LET L == load_order_data
    IN  Serve("orders", "get_all_orders", <<>>, L, Ok(L.data))

get_orders_by_user ==
    \E user_id \in 1..3 :
        LET L == load_order_data
            a == [user_id |-> user_id]
        IN  Serve("orders", "get_orders_by_user", a, L, orders_by_user(L.data, a))

get_budget_info ==
    \E department \in DepartmentArgs, project_id \in ProjectIdArgs,
       fiscal_year \in FiscalYearArgs, seed \in Seeds :
        LET L == load_financial_data(seed)
            a == [department |-> department, project_id |-> project_id,
                  fiscal_year |-> fiscal_year]
        IN  Serve("finance", "get_budget_info", a, L, budget_info(L.data, a))

get_expense_reports ==
    \E department \in DepartmentArgs, date_from \in DateFromArgs, date_to \in DateToArgs,
       seed \in Seeds :
        LET L == load_financial_data(seed)
            a == [department |-> department, date_from |-> date_from, date_to |-> date_to]
        IN  Serve("finance", "get_expense_reports", a, L, expense_reports(L.data, a))

get_revenue_data ==
    \E department \in DepartmentArgs, project_id \in RevenueProjectIdArgs,
       period \in PeriodArgs, seed \in Seeds :
        LET L == load_financial_data(seed)
            a == [department |-> department, project_id |-> project_id, period |-> period]
        IN  Serve("finance", "get_revenue_data", a, L, revenue_data(L.data, a))

get_financial_summary ==
    \E seed \in Seeds :
        LET L == load_financial_data(seed)
        IN  Serve("finance", "get_financial_summary", <<>>, L, financial_summary(L.data))

get_employees ==
    \E employee_id \in EmployeeIdArgs, name \in NameArgs, department \in DepartmentArgs,
       status \in StatusArgs, seed \in Seeds :
        LET L == load_hr_data(seed)
            a == [employee_id |-> employee_id, name |-> name, department |-> department,
                  status |-> status]
        IN  Serve("hr", "get_employees", a, L, employees_list(L.data, a))

get_employee_by_id ==
    \E employee_id \in {EmpId(0), EmpId(1), EmpId(9)}, seed \in Seeds :
        LET L == load_hr_data(seed)
            a == [employee_id |-> employee_id]
        IN  Serve("hr", "get_employee_by_id", a, L, employee_by_id(L.data, a))

get_hr_policies ==
    \E policy_type \in PolicyTypeArgs, category \in PolicyTypeArgs, seed \in Seeds :
        LET L == load_hr_data(seed)
            a == [policy_type |-> policy_type, category |-> category]
        IN  Serve("hr", "get_hr_policies", a, L, hr_policies(L.data, a))

get_payroll_data ==
    \E employee_id \in EmployeeIdArgs, period \in PayPeriodArgs, department \in DepartmentArgs,
       seed \in Seeds :
        LET L == load_hr_data(seed)
            a == [employee_id |-> employee_id, period |-> period, department |-> department]
        IN  Serve("hr", "get_payroll_data", a, L, payroll_data(L.data, a))

get_hr_summary ==
    \E seed \in Seeds :
        LET L == load_hr_data(seed)
        IN  Serve("hr", "get_hr_summary", <<>>, L, hr_summary(L.data))

get_system_status ==
    \E service_name \in ServiceNameArgs, seed \in Seeds :
        LET L == load_it_data(seed)
            a == [service_name |-> service_name]
        IN  Serve("it", "get_system_status", a, L, system_status_of(L.data, a))

get_system_overview ==
    \E seed \in Seeds :
        LET L == load_it_data(seed)
        IN  Serve("it", "get_system_overview", <<>>, L, system_overview(L.data))

get_support_tickets ==
    \E status \in TicketStatusArgs, priority \in PriorityArgs, seed \in Seeds :
        LET L == load_it_data(seed)
            a == [status |-> status, priority |-> priority]
        IN  Serve("it", "get_support_tickets", a, L, support_tickets_of(L.data, a))

get_password_reset_history ==
    \E username \in UsernameArgs, status \in ResetStatusArgs, seed \in Seeds :
        LET L == load_it_data(seed)
            a == [username |-> username, status |-> status]
        IN  Serve("it", "get_password_reset_history", a, L, password_resets_of(L.data, a))

get_it_dashboard ==
    \E seed \in Seeds :
        LET L == load_it_data(seed)
        IN  Serve("it", "get_it_dashboard", <<>>, L, it_dashboard(L.data, clock))

\* the document has room for one more ticket or reset
Room ==
    file.state = "json" =>
        Len(file.data.support_tickets) + Len(file.data.password_resets) < MaxStored

\* a POST: the key dependency, then the body is validated, then load, append,
\* save; now is datetime.now().  The handler is an `async def` without an
\* await, so one process runs it from load to save without interruption.
create_support_ticket ==
    \E body \in TicketBodies, seed \in Seeds, id \in RandomIds, now \in {clock, clock + 1},
       api_key \in Accepted("it") :
        LET ticket_request == SupportTicketRequest(body)
            L == load_it_data(seed)
            ticket == new_ticket(ticket_request, id, now)
            key == [api_key |-> api_key]
        IN  /\ Idle
            /\ domain = "it"
            /\ "it" \in included
            /\ Room
            /\ IF ~ticket_request.valid
               THEN /\ resp' = ValidationError("create_support_ticket", body) @@ key
                    /\ UNCHANGED <<file, clock>>
               ELSE IF L.raised
               THEN /\ resp' = Reply("create_support_ticket", body, L, <<>>) @@ key
                    /\ file' = L.file
                    /\ UNCHANGED clock
               ELSE /\ file' = save_it_data(with_ticket(L.data, ticket))
                    /\ resp' = Reply("create_support_ticket", body, L,
                                     Ok([message |-> "Support ticket created successfully",
                                         ticket_id |-> ticket.ticket_id,
                                         ticket |-> ticket])) @@ key
                    /\ clock' = now
            /\ UNCHANGED <<domain, included, inflight>>

reset_user_password ==
    \E body \in ResetBodies, seed \in Seeds, id \in RandomIds, now \in {clock, clock + 1},
       api_key \in Accepted("it") :
        LET reset_request == PasswordResetRequest(body)
            L == load_it_data(seed)
            record == reset_record(reset_request, id, now)
            key == [api_key |-> api_key]
        IN  /\ Idle
            /\ domain = "it"
            /\ "it" \in included
            /\ Room
            /\ IF ~reset_request.valid
               THEN /\ resp' = ValidationError("reset_user_password", body) @@ key
                    /\ UNCHANGED <<file, clock>>
               ELSE IF L.raised
               THEN /\ resp' = Reply("reset_user_password", body, L, <<>>) @@ key
                    /\ file' = L.file
                    /\ UNCHANGED clock
               ELSE /\ file' = save_it_data(with_reset(L.data, record))
                    /\ resp' = Reply("reset_user_password", body, L,
                                     Ok([message |-> "Password reset initiated successfully",
                                         reset_token |-> record.reset_token,
                                         email_sent_to |-> email_address(reset_request),
                                         expires_at |-> record.expires_at])) @@ key
                    /\ clock' = now
            /\ UNCHANGED <<domain, included, inflight>>

\* the GET handlers
Get ==
    \/ get_random_user \/ get_all_users \/ get_user_by_id
    \/ get_random_product \/ get_all_products \/ get_products_by_category
    \/ get_random_order \/ get_all_orders \/ get_orders_by_user
    \/ get_budget_info \/ get_expense_reports \/ get_revenue_data \/ get_financial_summary
    \/ get_employees \/ get_employee_by_id \/ get_hr_policies \/ get_payroll_data
    \/ get_hr_summary
    \/ get_system_status \/ get_system_overview \/ get_support_tickets
    \/ get_password_reset_history \/ get_it_dashboard
    \/ Refuse \/ not_found

\* the POST handlers
Post == create_support_ticket \/ reset_user_password

Next == Get \/ Post \/ Deliver

\* every handler, from a data directory without a well-formed document
Spec == Init /\ [][Next]_vars

NextQuery == Get \/ Deliver

\* the GET handlers, over the well-formed documents the directory may hold
SpecQuery == InitDocuments /\ [][NextQuery]_vars

----------------------------------------------------------------------------
(* Several worker processes on one data directory: a POST handler is a load of
   the document followed by a save of the whole document, it.py:146-164 and
   it.py:196-214, and nothing orders the steps of two processes.  Within one
   process the handlers are coroutines without an await and run one at a time. *)

RaceTicketBodies ==
    {[title |-> Some(<<"t">>), description |-> d, priority |-> None,
      category |-> None, contact_email |-> None] : d \in Opt({<<"d">>})}
RaceResetBodies == {[username |-> u, email |-> None] : u \in Opt({<<"b", "o">>})}

InFlight(pc, op, status, data, record) ==
    [pc |-> pc, op |-> op, status |-> status, data |-> data, record |-> record]

\* a data directory without the document or with a malformed one, served by an
\* application that includes the IT router
InitRace ==
    /\ domain = "it"
    /\ file \in {Absent, Corrupt}
    /\ clock = 1
    /\ resp = NoRequest
    /\ included = MainRouters \cup {"it"}
    /\ inflight = NoneInFlight

\* the requests a behaviour holds are bounded
RoomRace == clock <= MaxStored

\* worker w takes a request: validation, load_it_data() and the new record
Load(w, op, request, record, seed) ==
    LET L == load_it_data(seed)
    IN  /\ inflight[w].pc = "idle"
        /\ RoomRace
        /\ clock' = clock + 1
        /\ IF ~request.valid
           THEN /\ inflight' = [inflight EXCEPT ![w] = InFlight("done", op, 422, <<>>, <<>>)]
                /\ UNCHANGED file
           ELSE IF L.raised
           THEN /\ inflight' = [inflight EXCEPT ![w] = InFlight("done", op, 500, <<>>, <<>>)]
                /\ file' = L.file
           ELSE /\ inflight' = [inflight EXCEPT ![w] = InFlight("loaded", op, 0, L.data, record)]
                /\ file' = L.file
        /\ UNCHANGED <<domain, resp, included>>

create_support_ticket_load(w) ==
    \E body \in RaceTicketBodies, id \in RandomIds, seed \in Seeds :
        LET ticket_request == SupportTicketRequest(body)
        IN  Load(w, "create_support_ticket", ticket_request,
                 new_ticket(ticket_request, id, clock), seed)

\* data["support_tickets"].append(new_ticket); save_it_data(data)
create_support_ticket_save(w) ==
    /\ inflight[w].pc = "loaded" /\ inflight[w].op = "create_support_ticket"
    /\ file' = save_it_data(with_ticket(inflight[w].data, inflight[w].record))
    /\ inflight' = [inflight EXCEPT ![w].pc = "done", ![w].status = 200]
    /\ UNCHANGED <<domain, clock, resp, included>>

reset_user_password_load(w) ==
    \E body \in RaceResetBodies, id \in RandomIds, seed \in Seeds :
        LET reset_request == PasswordResetRequest(body)
        IN  Load(w, "reset_user_password", reset_request,
                 reset_record(reset_request, id, clock), seed)

\* data["password_resets"].append(reset_record); save_it_data(data)
reset_user_password_save(w) ==
    /\ inflight[w].pc = "loaded" /\ inflight[w].op = "reset_user_password"
    /\ file' = save_it_data(with_reset(inflight[w].data, inflight[w].record))
    /\ inflight' = [inflight EXCEPT ![w].pc = "done", ![w].status = 200]
    /\ UNCHANGED <<domain, clock, resp, included>>

\* the response of worker w is sent; the worker takes the next request
respond(w) ==
    /\ inflight[w].pc = "done"
    /\ inflight' = [inflight EXCEPT ![w] = NotInFlight]
    /\ UNCHANGED <<domain, file, clock, resp, included>>

NextRace ==
    \E w \in Workers :
        \/ create_support_ticket_load(w) \/ create_support_ticket_save(w)
        \/ reset_user_password_load(w) \/ reset_user_password_save(w)
        \/ respond(w)

SpecRace == InitRace /\ [][NextRace]_vars

----------------------------------------------------------------------------
(* A finance document written by hand: expense records may lack a field or
   carry a date that is no date; get_expense_reports reads them with e["..."] *)

\* record e without field key
Without(e, key) == [k \in DOMAIN e \ {key} |-> e[k]]

\* the i-th expense, whole or imperfect in one field
ExpenseVariants(i) ==
    LET whole == [id |-> i, department |-> FinDepartments[1], category |-> Categories[1],
                  amount |-> 100 * i + 25, date |-> StoredDates[2]]
    IN  {whole, [whole EXCEPT !.date = NotADate]}
        \cup {Without(whole, key) : key \in {"date", "department", "category", "amount"}}

ImperfectExpenseRows == RowsUpTo([i \in 1..MaxLen |-> ExpenseVariants(i)], MaxLen)

InitImperfect ==
    /\ domain = "finance"
    /\ file \in {Json([budgets |-> <<>>, expenses |-> r, revenues |-> <<>>]) :
                    r \in ImperfectExpenseRows}
    /\ clock = 1
    /\ resp = NoRequest
    /\ included = MainRouters
    /\ inflight = NoneInFlight

NextImperfect == get_expense_reports \/ Deliver

SpecImperfect == InitImperfect /\ [][NextImperfect]_vars

---------------------------------------------------------------------------
(* Reading a response *)

\* the list-returning filter endpoints: the response key of the record list and
\* the collection of the document it is taken from
ListKey ==
    [get_budget_info |-> "results", get_expense_reports |-> "expenses",
     get_revenue_data |-> "revenues", get_employees |-> "employees",
     get_hr_policies |-> "all_policies", get_payroll_data |-> "payroll_entries",
     get_support_tickets |-> "tickets", get_password_reset_history |-> "password_resets"]

CollectionOf ==
    [get_budget_info |-> "budgets", get_expense_reports |-> "expenses",
     get_revenue_data |-> "revenues", get_employees |-> "employees",
     get_hr_policies |-> "policies", get_payroll_data |-> "payroll",
     get_support_tickets |-> "support_tickets",
     get_password_reset_history |-> "password_resets"]

StoredOrderOps ==
    {"get_budget_info", "get_expense_reports", "get_revenue_data", "get_employees",
     "get_hr_policies", "get_payroll_data"}
SortedOps == {"get_support_tickets", "get_password_reset_history"}
SortKey == [get_support_tickets |-> "created_at", get_password_reset_history |-> "requested_at"]

\* the last request reached its handler: a route matched and the key passed
Handled ==
    resp.op \notin {"none", "not_found", "refused"}

\* a list endpoint answered with a record list
Listing == resp.op \in DOMAIN ListKey /\ resp.status = 200
Listed == resp.body[ListKey[resp.op]]
Stored == file.data[CollectionOf[resp.op]]

RECURSIVE IsSubsequence(_, _)
\* r is c with some elements left out
IsSubsequence(r, c) ==
    IF r = <<>> THEN TRUE
    ELSE IF c = <<>> THEN FALSE
    ELSE IF Head(r) = Head(c) THEN IsSubsequence(Tail(r), Tail(c))
    ELSE IsSubsequence(r, Tail(c))

Occurrences(s, x) == Cardinality({i \in 1..Len(s) : s[i] = x})

---------------------------------------------------------------------------
(* C1 *)

\* C1 as stated: every list-returning filter endpoint, support tickets and
\* password resets included, returns a subsequence of the persisted collection
\* in stored order.  Refuted: the ticket and reset endpoints sort newest first.
C1_StoredOrderEverywhere ==
    Listing => IsSubsequence(Listed, Stored)

\* C1 (amended): budgets, expenses, revenues, employees, policies and payroll
\* return a subsequence of the persisted collection in stored order; support
\* tickets and password resets return only stored records, each at most as
\* often as it is stored, ordered by creation time newest first, records of
\* equal creation time in stored order.
C1_Subsequence ==
    /\ Listing /\ resp.op \in StoredOrderOps => IsSubsequence(Listed, Stored)
    /\ Listing /\ resp.op \in SortedOps =>
          LET key == SortKey[resp.op]
          IN  /\ \A i \in 1..Len(Listed) :
                    Occurrences(Listed, Listed[i]) <= Occurrences(Stored, Listed[i])
              /\ \A i, j \in 1..Len(Listed) : i < j => Listed[i][key] >= Listed[j][key]
              /\ \A i \in 1..Len(Listed) :
                    IsSubsequence(SelectSeq(Listed, LAMBDA x : x[key] = Listed[i][key]), Stored)

\* two tickets come back newest first, against their stored order
C1_Witness ==
    /\ Listing /\ resp.op = "get_support_tickets"
    /\ Len(Listed) = 2 /\ Listed[1].created_at > Listed[2].created_at
    /\ Stored = <<Listed[2], Listed[1]>>

---------------------------------------------------------------------------
(* C2 *)

\* the constraint a supplied parameter value puts on a record
BudgetConstraint(b, a) ==
    /\ a.department # None => Lower(b.department) = Lower(a.department[1])
    /\ a.project_id # None => b.project_id = a.project_id[1]
    /\ a.fiscal_year # None => b.fiscal_year = a.fiscal_year[1]

RevenueConstraint(r, a) ==
    /\ a.department # None => Lower(r.department) = Lower(a.department[1])
    /\ a.project_id # None => r.project_id = Some(a.project_id[1])
    /\ a.period # None => Lower(r.period) = Lower(a.period[1])

PolicyConstraint(q, a) ==
    /\ a.policy_type # None => Lower(q.policy_type) = Lower(a.policy_type[1])
    /\ a.category # None => Lower(q.category) = Lower(a.category[1])

PayrollConstraint(q, a) ==
    /\ a.employee_id # None => q.employee_id = a.employee_id[1]
    /\ a.period # None => q.period = a.period[1]
    /\ a.department # None => Lower(q.department) = Lower(a.department[1])

EmployeeConstraint(e, a) ==
    /\ a.employee_id # None => e.employee_id = a.employee_id[1]
    /\ a.name # None =>
          \E field \in {"full_name", "first_name", "last_name"} :
              Contains(Lower(a.name[1]), Lower(e[field]))
    /\ a.department # None => Lower(e.department) = Lower(a.department[1])
    /\ a.status # None => Lower(e.status) = Lower(a.status[1])

\* the records a filter endpoint returned: none when it answered 404
Returned == IF resp.status = 200 THEN Listed ELSE <<>>

\* C2 as stated: a record is returned iff it satisfies the constraint of every
\* parameter that was supplied, whatever the supplied value (0 and "" included).
\* Refuted by the code: a supplied 0 or "" is dropped by `if <param>:`.
C2_ExactConjunctive ==
    /\ resp.op = "get_budget_info" /\ resp.status \in {200, 404} =>
          Returned = SelectSeq(Stored, LAMBDA b : BudgetConstraint(b, resp.args))
    /\ resp.op = "get_revenue_data" /\ resp.status \in {200, 404} =>
          Returned = SelectSeq(Stored, LAMBDA r : RevenueConstraint(r, resp.args))
    /\ resp.op = "get_employees" /\ resp.status \in {200, 404} =>
          Returned = SelectSeq(Stored, LAMBDA e : EmployeeConstraint(e, resp.args))
    /\ resp.op = "get_hr_policies" /\ resp.status \in {200, 404} =>
          Returned = SelectSeq(Stored, LAMBDA q : PolicyConstraint(q, resp.args))
    /\ resp.op = "get_payroll_data" /\ resp.status \in {200, 404} =>
          Returned = SelectSeq(Stored, LAMBDA q : PayrollConstraint(q, resp.args))

---------------------------------------------------------------------------
(* C3 *)

\* the filter endpoints that raise 404 on an empty result
NotFoundOps ==
    {"get_budget_info", "get_revenue_data", "get_employees", "get_hr_policies",
     "get_payroll_data"}

\* the stored records that satisfy every supplied constraint
Matching ==
    CASE resp.op = "get_budget_info" ->
             SelectSeq(Stored, LAMBDA b : BudgetConstraint(b, resp.args))
      [] resp.op = "get_revenue_data" ->
             SelectSeq(Stored, LAMBDA r : RevenueConstraint(r, resp.args))
      [] resp.op = "get_employees" ->
             SelectSeq(Stored, LAMBDA e : EmployeeConstraint(e, resp.args))
      [] resp.op = "get_hr_policies" ->
             SelectSeq(Stored, LAMBDA q : PolicyConstraint(q, resp.args))
      [] resp.op = "get_payroll_data" ->
             SelectSeq(Stored, LAMBDA q : PayrollConstraint(q, resp.args))

\* the lookups by path parameter of the user, product and order routers
LookupEmpty ==
    CASE resp.op = "get_user_by_id" ->
             \A i \in 1..Len(file.data) : file.data[i].id # resp.args.user_id
      [] resp.op = "get_products_by_category" ->
             \A i \in 1..Len(file.data) :
                 Lower(file.data[i].category) # Lower(resp.args.category)
      [] resp.op = "get_orders_by_user" ->
             \A i \in 1..Len(file.data) : file.data[i].user_id # resp.args.user_id

LookupOps == {"get_user_by_id", "get_products_by_category", "get_orders_by_user"}

\* C3 as stated: on an empty result the user, product, order, budget and
\* revenue endpoints answer 404, and the expense, payroll and policy endpoints
\* answer 200 with count 0 and an empty list.  Refuted for payroll and policy.
C3_EmptyListForPayrollAndPolicy ==
    /\ resp.op \in LookupOps /\ resp.status \in {200, 404} =>
          (resp.status = 404 <=> LookupEmpty)
    /\ resp.op \in {"get_budget_info", "get_revenue_data"} /\ resp.status = 200 =>
          Listed # <<>>
    /\ resp.op \in {"get_expense_reports", "get_hr_policies", "get_payroll_data"} =>
          /\ resp.status # 404
          /\ resp.status = 200 => resp.body.count = Len(Listed)

\* C3 (amended): on an empty result the user, product, order, budget, revenue,
\* employee, payroll and policy endpoints answer 404; only the expense endpoint
\* answers 200 with count 0 and an empty list.
C3_EmptyResult ==
    /\ resp.op \in LookupOps /\ resp.status \in {200, 404} =>
          (resp.status = 404 <=> LookupEmpty)
    /\ resp.op \in NotFoundOps /\ Handled =>
          /\ resp.status \in {200, 404, 500}
          /\ resp.status = 200 => Listed # <<>> /\ resp.body.count = Len(Listed)
          /\ resp.status = 404 => Matching = <<>>
    /\ resp.op = "get_expense_reports" /\ Handled =>
          /\ resp.status \in {200, 400, 500}
          /\ resp.status = 200 =>
                /\ resp.body.count = Len(Listed)
                /\ Listed = <<>> =>
                      /\ resp.body.total_amount = 0
                      /\ DOMAIN resp.body.summary_by_category = {}
                      /\ DOMAIN resp.body.summary_by_department = {}

\* a policy filter that matches none of the stored policies is answered 404
C3_Witness ==
    /\ resp.op = "get_hr_policies" /\ resp.status = 404
    /\ file.state = "json" /\ file.data.policies # <<>>
    /\ resp.args.policy_type # None

---------------------------------------------------------------------------
(* C4 *)

\* a bound that was supplied and is not a YYYY-MM-DD date
Malformed(bound) == bound # None /\ ~Parses(bound[1])

\* C4 as stated: the expenses endpoint answers 400 exactly when a supplied
\* date_from or date_to is not a valid date.  Refuted by the code: a supplied
\* empty bound is dropped by `if date_from:` and the request answers 200.
C4_MalformedBoundFails ==
    resp.op = "get_expense_reports" /\ resp.loaded # None =>
        (resp.status = 400 <=> Malformed(resp.args.date_from) \/ Malformed(resp.args.date_to))

---------------------------------------------------------------------------
(* C5 *)

\* date a is not after date b, on the calendar fields
DateLeq(a, b) ==
    \/ a.y < b.y
    \/ a.y = b.y /\ a.m < b.m
    \/ a.y = b.y /\ a.m = b.m /\ a.d <= b.d

InRange(e, a) ==
    /\ a.date_from # None => DateLeq(a.date_from[1], e.date)
    /\ a.date_to # None => DateLeq(e.date, a.date_to[1])

WellFormedBounds(a) ==
    /\ a.date_from # None => Parses(a.date_from[1])
    /\ a.date_to # None => Parses(a.date_to[1])

\* the stored expenses that pass the department filter as the handler applies it
OfDepartment(a) ==
    IF TruthyStr(a.department)
    THEN SelectSeq(Stored, LAMBDA e : Lower(e.department) = Lower(a.department[1]))
    ELSE Stored

\* C5: with well-formed bounds the expenses endpoint retains exactly the
\* expenses with date_from <= date (when date_from is supplied) and
\* date <= date_to (when date_to is supplied), both ends inclusive.
C5_InclusiveRange ==
    resp.op = "get_expense_reports" /\ resp.status = 200 /\ WellFormedBounds(resp.args) =>
        Listed = SelectSeq(OfDepartment(resp.args), LAMBDA e : InRange(e, resp.args))

\* an expense dated exactly on date_from is returned, an earlier one is not
C5_Witness ==
    /\ resp.op = "get_expense_reports" /\ resp.status = 200
    /\ resp.args.date_from = Some(DateText(2023, 7, 1))
    /\ \E i \in 1..Len(Listed) : Listed[i].date = DateText(2023, 7, 1)
    /\ Len(Listed) < Len(Stored)

---------------------------------------------------------------------------
(* C6 *)

RECURSIVE SumAt(_, _, _)
\* the sum of s[i][field] over the positions i in I
SumAt(s, field, I) ==
    IF I = {} THEN 0
    ELSE LET i == CHOOSE x \in I : TRUE
         IN  s[i][field] + SumAt(s, field, I \ {i})

RECURSIVE SumValues(_)
\* the sum of the values of a dict
SumValues(g) ==
    IF DOMAIN g = {} THEN 0
    ELSE LET k == CHOOSE x \in DOMAIN g : TRUE
         IN  g[k] + SumValues([x \in DOMAIN g \ {k} |-> g[x]])

\* the response's dict under summary_key groups the returned records by group
Grouped(summary_key, group, field, total) ==
    LET g == resp.body[summary_key]
    IN  /\ DOMAIN g = {Listed[i][group] : i \in 1..Len(Listed)}
        /\ \A k \in DOMAIN g :
              g[k] = SumAt(Listed, field, {i \in 1..Len(Listed) : Listed[i][group] = k})
        /\ SumValues(g) = total

Aggregated(total_key, field, key1, group1, key2, group2) ==
    LET total == resp.body[total_key]
    IN  /\ total = SumAt(Listed, field, 1..Len(Listed))
        /\ Grouped(key1, group1, field, total)
        /\ Grouped(key2, group2, field, total)

---------------------------------------------------------------------------
(* C7 *)

SummaryOps ==
    {"get_hr_summary", "get_financial_summary", "get_system_overview", "get_it_dashboard"}

\* total/count rounded as the handler rounds it, 0 when count is 0
Average(total, count, ndigits) ==
    IF count > 0 THEN Round(Quotient(total, count), ndigits) ELSE Round(Zero, ndigits)

\* C7 as stated: every summary request on a document that loads succeeds,
\* whatever the persisted collections are, and its averages are total/count,
\* or 0 when the count is 0.  Refuted by the code: the status overview and the
\* dashboard divide by len(system_status) unguarded.
C7_NoDivisionFault ==
    /\ resp.op \in SummaryOps /\ resp.loaded # None =>
          resp.status = 200 /\ resp.exc # "ZeroDivisionError"
    /\ resp.op = "get_hr_summary" /\ resp.status = 200 =>
          resp.body.average_salary =
              Average(resp.body.total_payroll_processed, resp.body.total_payroll_records, 2)
    /\ resp.op = "get_system_overview" /\ resp.status = 200 =>
          resp.body.average_uptime =
              Average(SumAt(file.data.system_status, "uptime",
                            1..Len(file.data.system_status)),
                      100 * Len(file.data.system_status), 2)

---------------------------------------------------------------------------
(* C8 *)

\* the documents a first load of domain d can generate
DefaultDocuments(d) ==
    CASE d = "users" -> {default_users}
      [] d = "products" -> {default_products}
      [] d = "orders" -> {default_orders}
      [] d = "finance" ->
             {[budgets |-> generate_budget_data(seed),
               expenses |-> generate_expense_data(seed),
               revenues |-> generate_revenue_data(seed)] : seed \in 1..NSeeds}
      [] d = "hr" ->
             {[employees |-> generate_employee_data(seed),
               policies |-> generate_policy_data(seed),
               payroll |-> generate_payroll_data(seed)] : seed \in 1..NSeeds}
      [] d = "it" ->
             {[system_status |-> generate_system_status_data(seed),
               support_tickets |-> <<>>,
               password_resets |-> <<>>] : seed \in 1..NSeeds}

\* C8: a GET on an absent document generates a default collection, persists
\* it and serves the request from it; once a document is persisted, no GET
\* modifies it and every load returns exactly the persisted collection.
C8_ReadMostly ==
    [][/\ file.state = "absent" /\ Handled' =>
              /\ file'.state = "json"
              /\ file'.data \in DefaultDocuments(domain)
              /\ resp'.loaded = Some(file'.data)
       /\ file.state = "json" =>
              /\ file' = file
              /\ Handled' => resp'.loaded = Some(file.data)]_vars

\* a finance request served from the generated document that is now persisted
C8_Witness ==
    /\ domain = "finance" /\ resp.op = "get_expense_reports"
    /\ file.state = "json" /\ file.data \in DefaultDocuments("finance")
    /\ resp.loaded = Some(file.data)

---------------------------------------------------------------------------
(* C9 *)

PostOps == {"create_support_ticket", "reset_user_password"}

\* C9: while the persisted document cannot be deserialized, no request changes
\* it, and every request that loads it fails with the decoding error and
\* returns no records; the only other outcome is a POST whose body is rejected
\* before the load.
C9_CorruptIsFatal ==
    [][file.state = "corrupt" =>
          /\ file' = file
          /\ Handled' =>
                /\ resp'.loaded = None
                /\ \/ /\ resp'.status = 500
                      /\ resp'.exc = "JSONDecodeError"
                      /\ DOMAIN resp'.body = {"detail"}
                   \/ /\ resp'.status = 422
                      /\ resp'.op \in PostOps]_vars

\* a ticket POST with a valid body fails on the corrupt document
C9_Witness ==
    /\ file.state = "corrupt"
    /\ resp.op = "create_support_ticket" /\ resp.status = 500
    /\ SupportTicketRequest(resp.args).valid

---------------------------------------------------------------------------
(* C10 *)

IsPrefix(s, t) == Len(s) <= Len(t) /\ SubSeq(t, 1, Len(s)) = s

\* the sub-collections before the step; a first load starts them empty
OldTickets == IF file.state = "json" THEN file.data.support_tickets ELSE <<>>
OldResets == IF file.state = "json" THEN file.data.password_resets ELSE <<>>

\* stored order is creation order
InCreationOrder(s, key) == \A i, j \in 1..Len(s) : i < j => s[i][key] <= s[j][key]

\* C10: with requests handled one at a time, a successful ticket creation
\* appends exactly the new ticket at the end of support_tickets and a
\* successful password reset exactly one record at the end of password_resets;
\* the earlier records keep their order and the other sub-collections are
\* unchanged, so no created record is lost and stored order is creation order.
C10_AppendOnly ==
    [][/\ resp'.op = "create_support_ticket" /\ resp'.status = 200 =>
              /\ file'.state = "json"
              /\ file'.data.support_tickets = Append(OldTickets, resp'.body.ticket)
              /\ file'.data.password_resets = OldResets
              /\ file.state = "json" => file'.data.system_status = file.data.system_status
       /\ resp'.op = "reset_user_password" /\ resp'.status = 200 =>
              /\ file'.state = "json"
              /\ Len(file'.data.password_resets) = Len(OldResets) + 1
              /\ IsPrefix(OldResets, file'.data.password_resets)
              /\ file'.data.password_resets[Len(OldResets) + 1].reset_token
                     = resp'.body.reset_token
              /\ file'.data.support_tickets = OldTickets
              /\ file.state = "json" => file'.data.system_status = file.data.system_status
       /\ domain = "it" /\ file.state = "json" =>
              /\ file'.state = "json"
              /\ IsPrefix(OldTickets, file'.data.support_tickets)
              /\ IsPrefix(OldResets, file'.data.password_resets)
       /\ domain = "it" /\ file'.state = "json" =>
              /\ InCreationOrder(file'.data.support_tickets, "created_at")
              /\ InCreationOrder(file'.data.password_resets, "requested_at")]_vars

\* a second ticket is stored after the first
C10_Witness ==
    /\ resp.op = "create_support_ticket" /\ resp.status = 200
    /\ file.state = "json"
    /\ Len(file.data.support_tickets) = 2
    /\ file.data.support_tickets[2] = resp.body.ticket

----------------------------------------------------------------------------
(* C11 *)

\* a stored ticket as the request model admits it
WellFormedTicket(t) ==
    /\ t.priority \in Priorities
    /\ t.priority = Lower(t.priority)
    /\ {"title", "description"} \subseteq DOMAIN t
    /\ t.status = Open

\* a stored reset names whom it is for
WellFormedReset(r) == r.username # None \/ r.email # None

\* C11: every ticket a POST stored has a lower-case priority among low, medium,
\* high and critical, a title, a description and status open; every stored reset
\* has a username or an email; a POST whose body violates the schema is answered
\* with a validation error and leaves the document as it was.
C11_SchemaEnforced ==
    [][/\ domain = "it" /\ file'.state = "json" =>
              /\ \A i \in 1..Len(file'.data.support_tickets) :
                     WellFormedTicket(file'.data.support_tickets[i])
              /\ \A i \in 1..Len(file'.data.password_resets) :
                     WellFormedReset(file'.data.password_resets[i])
       /\ resp'.op = "create_support_ticket" /\ Handled'
              /\ ~SupportTicketRequest(resp'.args).valid =>
              resp'.status = 422 /\ file' = file
       /\ resp'.op = "reset_user_password" /\ Handled'
              /\ ~PasswordResetRequest(resp'.args).valid =>
              resp'.status = 422 /\ file' = file
       /\ resp'.op \in PostOps /\ resp'.status = 422 => file' = file]_vars

\* a ticket sent with priority "HI" is stored with priority "hi" next to a
\* reset that names only an email
C11_Witness ==
    /\ resp.op = "create_support_ticket" /\ resp.status = 200
    /\ resp.args.priority = Some(<<"H", "I">>)
    /\ file.state = "json"
    /\ file.data.support_tickets[Len(file.data.support_tickets)].priority = <<"h", "i">>
    /\ Len(file.data.password_resets) = 1
    /\ file.data.password_resets[1].username = None

----------------------------------------------------------------------------
(* C12 *)

KeyedDomains == {"finance", "hr", "it"}

\* the keys a domain's router accepts
ValidKeys(d) ==
    CASE d = "finance" -> VALID_API_KEYS
      [] d = "hr" -> VALID_HR_API_KEYS
      [] d = "it" -> VALID_IT_API_KEYS
      [] OTHER -> {}

\* the request just answered carried no valid key of the domain
Unauthorized == resp.op # "none" /\ resp.api_key \notin {Some(k) : k \in ValidKeys(domain)}

\* C12: a request to a finance, HR or IT endpoint whose key header is missing
\* or is not one of the domain's keys is rejected before the handler runs, with
\* 401 when a key was sent: nothing is loaded, no default collection is
\* generated and the document is not modified; a request to a users, products
\* or orders endpoint needs no key.
C12_KeyRequired ==
    [][/\ domain \in KeyedDomains /\ Unauthorized' =>
              /\ resp'.status \in {401, 422}
              /\ resp'.api_key # None => resp'.status = 401
              /\ resp'.loaded = None
              /\ file' = file
       /\ domain \notin KeyedDomains /\ resp'.op # "none" =>
              resp'.api_key = None /\ Handled']_vars

----------------------------------------------------------------------------
(* C16 *)

\* the request just answered carried the key its domain asks for, if any
Authorized == resp.op # "none" /\ ~Depends(domain, resp.api_key).raised

\* C16: the application serves all six domains: a request to an endpoint of
\* users, products, orders, finance, HR or IT, with a valid key where one is
\* required, is routed to the domain's handler; the IT endpoints are reachable
\* through the application.
C16_AllDomainsServed ==
    Authorized => resp.op # "not_found" /\ domain \in included

----------------------------------------------------------------------------
(* C13 *)

\* the query parameters a list endpoint compares with a stored text for equality
EqualityFields ==
    [get_budget_info |-> {"department", "project_id"},
     get_expense_reports |-> {"department"},
     get_revenue_data |-> {"department", "project_id", "period"},
     get_employees |-> {"employee_id", "department", "status"},
     get_hr_policies |-> {"policy_type", "category"},
     get_payroll_data |-> {"employee_id", "period", "department"},
     get_support_tickets |-> {"status", "priority"},
     get_password_reset_history |-> {"username", "status"}]

\* the stored fields that hold an Optional text
OptionalStored ==
    {<<"get_revenue_data", "project_id">>, <<"get_password_reset_history", "username">>}

StoredText(op, r, k) == IF <<op, k>> \in OptionalStored THEN r[k] ELSE Some(r[k])

\* record r equals, letter case aside, every supplied equality parameter of a
MatchesFolded(op, r, a) ==
    \A k \in EqualityFields[op] \cap DOMAIN a :
        TruthyStr(a[k]) =>
            /\ StoredText(op, r, k) # None
            /\ Lower(StoredText(op, r, k)[1]) = Lower(a[k][1])

\* a list endpoint answered with its records or with "nothing found"
Filtered ==
    /\ resp.op \in DOMAIN ListKey
    /\ resp.loaded # None
    /\ resp.status \in {200, 404}

\* no parameter other than the equality parameters was supplied
OnlyEqualityFilters ==
    \A k \in DOMAIN resp.args \ EqualityFields[resp.op] : resp.args[k] = None

\* C13: every string-equality filter is a case-insensitive exact match: a
\* returned record equals the supplied value of each equality parameter once
\* both are lower-cased, and, no other parameter being supplied, every stored
\* record that does so is returned; so for department, project_id, period,
\* employee_id, status, policy_type, category, priority, username and the
\* product category.
C13_CaseInsensitiveExact ==
    /\ Filtered =>
          /\ \A i \in 1..Len(Returned) : MatchesFolded(resp.op, Returned[i], resp.args)
          /\ OnlyEqualityFilters =>
                \A i \in 1..Len(Stored) :
                    MatchesFolded(resp.op, Stored[i], resp.args) =>
                        \E j \in 1..Len(Returned) : Returned[j] = Stored[i]
    /\ resp.op = "get_products_by_category" /\ resp.status \in {200, 404} =>
          LET products == IF resp.status = 200 THEN resp.body ELSE <<>>
          IN  \A i \in 1..Len(file.data) :
                  (\E j \in 1..Len(products) : products[j] = file.data[i])
                      <=> Lower(file.data[i].category) = Lower(resp.args.category)

----------------------------------------------------------------------------
(* C14 *)

\* a filter specification cut down to the parameters in keys
Restrict(a, keys) == [k \in DOMAIN a |-> IF k \in keys THEN a[k] ELSE None]

Kept(list) == [raised |-> FALSE, list |-> list]
Failed == [raised |-> TRUE, list |-> <<>>]

\* the filter chain of endpoint op run on the record list s with parameters a
Apply(op, s, a) ==
    CASE op = "get_budget_info" -> Kept(filtered_budgets(s, a))
      [] op = "get_expense_reports" ->
             LET out == expense_reports([expenses |-> s], a)
             IN  IF out.status = 200 THEN Kept(out.body.expenses) ELSE Failed
      [] op = "get_revenue_data" -> Kept(filtered_revenues(s, a))
      [] op = "get_employees" -> Kept(filtered_employees(s, a))
      [] op = "get_hr_policies" -> Kept(filtered_policies(s, a))
      [] op = "get_payroll_data" -> Kept(filtered_payroll(s, a))
      [] op = "get_support_tickets" ->
             Kept(support_tickets_of([support_tickets |-> s], a).body.tickets)
      [] op = "get_password_reset_history" ->
             Kept(password_resets_of([password_resets |-> s], a).body.password_resets)

\* filtering by a1 and then filtering the result by a2
Then(op, s, a1, a2) ==
    LET first == Apply(op, s, a1)
    IN  IF first.raised THEN Failed ELSE Apply(op, first.list, a2)

\* a list endpoint answered from its filter chain
Chained ==
    /\ resp.op \in DOMAIN ListKey
    /\ resp.loaded # None
    /\ resp.status \in {200, 400, 404}

\* the parameters the request supplied
Supplied == {k \in DOMAIN resp.args : resp.args[k] # None}

\* C14: for every stored collection and every split of the supplied parameters
\* into two specifications over disjoint fields, filtering by the first and
\* then filtering the result by the second gives the record sequence the
\* endpoint returned for both together; the split ranges over every subset, so
\* each pair is taken in both orders.
C14_Composition ==
    Chained =>
        LET once == Apply(resp.op, Stored, resp.args)
        IN  /\ once.raised <=> resp.status = 400
            /\ ~once.raised => once.list = Returned
            /\ \A keys \in SUBSET Supplied :
                   Then(resp.op, Stored, Restrict(resp.args, keys),
                        Restrict(resp.args, Supplied \ keys)) = once

\* employees filtered by department and status: the department alone drops a
\* record that the status alone keeps
C14_Witness ==
    /\ resp.op = "get_employees" /\ resp.status = 200
    /\ TruthyStr(resp.args.department) /\ TruthyStr(resp.args.status)
    /\ Len(Stored) = 2 /\ Len(Returned) = 1
    /\ Len(filtered_employees(Stored, Restrict(resp.args, {"department"}))) = 1
    /\ Len(filtered_employees(Stored, Restrict(resp.args, {"status"}))) = 2

----------------------------------------------------------------------------
(* C15 *)

GetAllOps == {"get_all_users", "get_all_products", "get_all_orders"}

\* the endpoints that answer an empty result with an empty list
EmptyListOps == {"get_expense_reports"} \cup SortedOps

\* a list endpoint was asked without any filter parameter and did not fail on
\* the document
Unfiltered ==
    /\ resp.op \in DOMAIN ListKey
    /\ resp.loaded # None
    /\ \A k \in DOMAIN resp.args : resp.args[k] = None

\* C15 as stated: with no filter parameter, every list endpoint returns the
\* persisted collection unchanged, in stored order, with count its length.
\* Refuted: the ticket and reset endpoints return it sorted newest first.
C15_FullCollectionUnchanged ==
    /\ Unfiltered /\ (Stored # <<>> \/ resp.op \in EmptyListOps) =>
          /\ resp.status = 200
          /\ Listed = Stored
          /\ resp.body.count = Len(Stored)
    /\ resp.op \in GetAllOps /\ resp.status = 200 => resp.body = file.data

\* C15 (amended): with no filter parameter, the budget, expense, revenue,
\* employee, policy and payroll endpoints and the three get-all endpoints
\* return the persisted collection unchanged, in stored order, with count its
\* length (the expense endpoint also when it is empty); the ticket and reset
\* endpoints return every stored record once, count its length, ordered by
\* creation time newest first with records of equal time in stored order.
C15_FullCollection ==
    /\ Unfiltered /\ resp.op \in StoredOrderOps
           /\ (Stored # <<>> \/ resp.op \in EmptyListOps) =>
          /\ resp.status = 200
          /\ Listed = Stored
          /\ resp.body.count = Len(Stored)
    /\ Unfiltered /\ resp.op \in SortedOps =>
          LET key == SortKey[resp.op]
          IN  /\ resp.status = 200
              /\ resp.body.count = Len(Stored)
              /\ Len(Listed) = Len(Stored)
              /\ \A i \in 1..Len(Stored) :
                     Occurrences(Listed, Stored[i]) = Occurrences(Stored, Stored[i])
              /\ \A i, j \in 1..Len(Listed) : i < j => Listed[i][key] >= Listed[j][key]
              /\ \A i \in 1..Len(Listed) :
                     IsSubsequence(SelectSeq(Listed, LAMBDA x : x[key] = Listed[i][key]), Stored)
    /\ resp.op \in GetAllOps /\ resp.status = 200 => resp.body = file.data

\* two stored revenues, one of them with a project, come back as stored
C15_Witness ==
    /\ Unfiltered /\ resp.op = "get_revenue_data" /\ resp.status = 200
    /\ Len(Stored) = 2 /\ Listed = Stored /\ resp.body.count = 2
    /\ Stored[1].project_id # None /\ Stored[2].project_id = None

----------------------------------------------------------------------------
(* C18 *)

\* the records of s differ pairwise in field key
Distinct(s, key) == \A i, j \in 1..Len(s) : i # j => s[i][key] # s[j][key]

\* C18: in every persisted document the unique-key values of each collection
\* are pairwise distinct: id in budgets, expenses, revenues and payroll,
\* employee_id in employees, policy_id in policies and, after any sequence of
\* ticket creations and password resets, ticket_id in support_tickets and
\* request_id in password_resets.
C18_UniqueKeys ==
    file.state = "json" =>
        /\ domain = "finance" =>
              /\ Distinct(file.data.budgets, "id")
              /\ Distinct(file.data.expenses, "id")
              /\ Distinct(file.data.revenues, "id")
        /\ domain = "hr" =>
              /\ Distinct(file.data.employees, "employee_id")
              /\ Distinct(file.data.policies, "policy_id")
              /\ Distinct(file.data.payroll, "id")
        /\ domain = "it" =>
              /\ Distinct(file.data.support_tickets, "ticket_id")
              /\ Distinct(file.data.password_resets, "request_id")

----------------------------------------------------------------------------
(* C17 *)

\* the records of the two appended collections of a document
Appended(data) ==
    {data.support_tickets[i] : i \in 1..Len(data.support_tickets)}
    \cup {data.password_resets[i] : i \in 1..Len(data.password_resets)}

\* worker w saves in this step
Saves(w) == inflight[w].pc = "loaded" /\ inflight'[w].pc = "done"

----------------------------------------------------------------------------
(* C19 *)

\* the fields the expense aggregation reads
AggregatedFields == {"amount", "category", "department"}

\* an expense that satisfies every supplied constraint; a record without the
\* constrained field, or with a date that is no date, satisfies none
SatisfiesNullSafe(e, a) ==
    /\ TruthyStr(a.department) =>
          "department" \in DOMAIN e /\ SameFolded(e.department, a.department[1])
    /\ TruthyDate(a.date_from) =>
          "date" \in DOMAIN e /\ Parses(e.date) /\ NotBefore(e, a.date_from[1])
    /\ TruthyDate(a.date_to) =>
          "date" \in DOMAIN e /\ Parses(e.date) /\ NotAfter(e, a.date_to[1])

\* the supplied date bounds are dates
BoundsParse ==
    /\ TruthyDate(resp.args.date_from) => Parses(resp.args.date_from[1])
    /\ TruthyDate(resp.args.date_to) => Parses(resp.args.date_to[1])

\* C19: a record whose constrained field is missing, or whose date is missing
\* or unparseable, is treated as non-matching and left out of the range
\* evaluation: it never makes the request fail, and the request returns the
\* other matching records.
C19_NullSafeFiltering ==
    resp.op = "get_expense_reports" /\ resp.loaded # None /\ BoundsParse =>
        LET matching == SelectSeq(Stored, LAMBDA e : SatisfiesNullSafe(e, resp.args))
        IN  (\A i \in 1..Len(matching) : AggregatedFields \subseteq DOMAIN matching[i]) =>
                /\ resp.status = 200
                /\ resp.body.expenses = matching

----------------------------------------------------------------------------
(* C20 *)

Unknown == <<"u", "n", "k", "n", "o", "w", "n">>

\* the group of a record, "unknown" when it has no group field
GroupOf(e, key) == IF key \in DOMAIN e THEN e[key] ELSE Unknown

\* what a record adds to a total: zero when it has no summed field
Contribution(e, key) == IF key \in DOMAIN e THEN e[key] ELSE 0

Contributions(s, key) == [i \in 1..Len(s) |-> Contribution(s[i], key)]

\* the grouped sums with the sentinel group and zero contributions
TotalGroupSum(s, group, key) ==
    [g \in {GroupOf(s[i], group) : i \in 1..Len(s)} |->
        Sum(Contributions(SelectSeq(s, LAMBDA e : GroupOf(e, group) = g), key))]

\* C20: aggregation is total over imperfect records: a record without the
\* group field is counted in the group "unknown", a record without the summed
\* field contributes zero to the totals, and the request does not fail.
C20_TotalAggregation ==
    /\ resp.op = "get_expense_reports" /\ resp.loaded # None
    /\ \A k \in DOMAIN resp.args : resp.args[k] = None
    => /\ resp.status = 200
       /\ resp.body.count = Len(Stored)
       /\ resp.body.total_amount = Sum(Contributions(Stored, "amount"))
       /\ resp.body.summary_by_category = TotalGroupSum(Stored, "category", "amount")
       /\ resp.body.summary_by_department = TotalGroupSum(Stored, "department", "amount")

====
